---- MODULE Spec2Model ----
(***************************************************************************)
(* Model of the GitHub webhook listener of src/app.py: signature check,    *)
(* event routing, clone into a temporary checkout, per-file syntax and     *)
(* runtime checks, the process-wide result log `errors`, cleanup and the   *)
(* two HTTP endpoints (POST /webhook, GET /errors).                        *)
(*                                                                         *)
(* Environment: the file system, git and the python child process are      *)
(* inputs.  Their outcomes are drawn nondeterministically, at the level    *)
(* the code distinguishes them: clone exit status (check=True), presence   *)
(* of a file (os.path.exists), SyntaxError or not, TimeoutExpired /        *)
(* returncode / stdout of the child, and a permission error on removal     *)
(* (onerror=remove_readonly).  Payloads follow GitHub's schema, and a file  *)
(* named *.py holds source text (the precondition of check_syntax).        *)
(***************************************************************************)
EXTENDS Integers, Sequences, FiniteSets, TLC

\* ------------------------------------------------------------- bounds
MaxCommits == 2         \* commits in a push payload
MaxPaths == 2           \* path occurrences (added + modified) in a push payload
MaxLog == 3             \* entries the log holds before deliveries stop coming
MaxOut == 2             \* characters of captured standard output

\* Request-handling threads of the HTTP server, in creation order.
Workers == {1, 2}

\* ------------------------------------------------------------- values
\* A path is a sequence of name parts; its last part is the extension.
PyA == <<"a", ".py">>
Readme == <<"README", ".md">>
Paths == {PyA, Readme}

\* str.endswith(".py")
EndsWithPy(p) == Len(p) >= 1 /\ p[Len(p)] = ".py"

\* Module-level configuration (line 16) and another party's secret.
WEBHOOK_SECRET == "secret"
OtherSecret == "guess"

\* hmac.new(key, msg, sha256).hexdigest(): a keyed digest, abstractly a
\* tagged triple (distinct keys or bodies give distinct digests).
HexDigest(key, msg) == <<"hmac", key, msg>>

\* Python's None where a result text is expected, and an absent header.
None == [kind |-> "None", file |-> <<>>]
NoHeader == <<"None", <<>>>>
NoAction == "None"

\* ------------------------------------------------------------- inputs
RECURSIVE ListsOfLen(_)
\* All lists of exactly n paths.
ListsOfLen(n) ==
    IF n = 0 THEN {<<>>}
    ELSE {<<p>> \o l : p \in Paths, l \in ListsOfLen(n - 1)}

\* A commit of a push payload with exactly w path occurrences.
CommitsOfWeight(w) ==
    UNION {{[added |-> a, modified |-> m] :
               a \in ListsOfLen(i), m \in ListsOfLen(w - i)} : i \in 0..w}

RECURSIVE CommitSeqs(_, _)
\* All sequences of exactly c commits with at most k path occurrences.
CommitSeqs(c, k) ==
    IF c = 0 THEN {<<>>}
    ELSE UNION {{<<cm>> \o rest :
                    cm \in CommitsOfWeight(w), rest \in CommitSeqs(c - 1, k - w)} :
                w \in 0..k}

\* The commit lists of push payloads that leave the log within MaxLog when
\* it holds n entries.
PushCommits(n) ==
    LET k == IF MaxLog - n < MaxPaths THEN MaxLog - n ELSE MaxPaths
    IN  IF k < 0 THEN {} ELSE UNION {CommitSeqs(c, k) : c \in 0..MaxCommits}

Events == {"push", "pull_request", "issues"}
Actions == {"opened", "synchronize", "reopened", "closed"}

\* Decoded webhook payloads (GitHub schema), by event kind, when the log
\* holds n entries.
PayloadsOf(event, n) ==
    IF event = "push" THEN {[action |-> NoAction, commits |-> c] : c \in PushCommits(n)}
    ELSE IF event = "pull_request" THEN {[action |-> a, commits |-> <<>>] : a \in Actions}
    ELSE {[action |-> NoAction, commits |-> <<>>]}

\* A header value with a character outside ASCII (header bytes reach the
\* application decoded as latin-1).
NonAscii == <<"sha256=", <<"non-ascii">>>>
IsAscii(text) == text # NonAscii

\* Values of the X-Hub-Signature-256 header a sender can put on a body:
\* absent, the right one, the digest without its prefix, a digest under
\* another key, text that is not ASCII.
SignaturesFor(body) ==
    { NoHeader,
      <<"sha256=", HexDigest(WEBHOOK_SECRET, body)>>,
      <<"", HexDigest(WEBHOOK_SECRET, body)>>,
      <<"sha256=", HexDigest(OtherSecret, body)>>,
      NonAscii }

\* Captured standard output: strings of at most MaxOut characters over a
\* printing character and a whitespace character.
RECURSIVE StringsOfLen(_)
StringsOfLen(n) ==
    IF n = 0 THEN {<<>>}
    ELSE {<<c>> \o s : c \in {"x", " "}, s \in StringsOfLen(n - 1)}
Outputs == UNION {StringsOfLen(n) : n \in 0..MaxOut}

\* Outcomes of one subprocess.run(["python", file], timeout=10).
Executions == [timeout : BOOLEAN, returncode : {0, 1}, stdout : Outputs]

\* What is known of a path inside a checkout: not looked at yet, not there,
\* there with a syntax error, there and compiling.
FileStates == {"absent", "bad", "good"}
Unseen == [p \in Paths |-> "unseen"]

\* Names tempfile.mkdtemp can give a directory (lines 92, 135), and the
\* value of temp_dir before it is assigned.
NameList == <<"tmp1", "tmp2">>
Names == {NameList[i] : i \in 1..Len(NameList)}
NoDir == "None"

\* ------------------------------------------------------- pure functions
RECURSIVE LStrip(_)
LStrip(s) == IF s # <<>> /\ Head(s) = " " THEN LStrip(Tail(s)) ELSE s
RECURSIVE RStrip(_)
RStrip(s) ==
    IF s # <<>> /\ s[Len(s)] = " " THEN RStrip(SubSeq(s, 1, Len(s) - 1)) ELSE s
\* str.strip()
Strip(s) == RStrip(LStrip(s))

\* A log entry: the text's classification and the file it names.
Entry(kind, path) == [kind |-> kind, file |-> path]

\* check_syntax (lines 26-33): None, or the "Syntax Error in ..." text.
check_syntax(file_path, state) ==
    IF state = "bad" THEN Entry("syntax", file_path) ELSE None

\* A runtime checker that tests the captured output without stripping it.
run_file_nostrip(file_path, ex) ==
    IF ex.timeout THEN Entry("timeout", file_path)
    ELSE IF ex.returncode # 0 THEN Entry("runtime", file_path)
    ELSE IF ex.stdout # <<>> THEN Entry("output", file_path)
    ELSE None

\* run_file (lines 36-50): TimeoutExpired is raised by subprocess.run, so it
\* is decided before the return code and the output are looked at.
run_file(file_path, ex) ==
    IF ex.timeout THEN Entry("timeout", file_path)
    ELSE IF ex.returncode # 0 THEN Entry("runtime", file_path)
    ELSE IF Strip(ex.stdout) # <<>> THEN Entry("output", file_path)
    ELSE None

\* hmac.compare_digest on two str arguments (line 56): the comparison, or
\* TypeError when either holds a non-ASCII character.
compare_digest(a, b) ==
    IF ~IsAscii(a) \/ ~IsAscii(b) THEN [raised |-> TRUE, value |-> FALSE]
    ELSE [raised |-> FALSE, value |-> a = b]

\* verify_signature (lines 53-56)
verify_signature(payload, signature) ==
    LET mac == HexDigest(WEBHOOK_SECRET, payload)
        expected == <<"sha256=", mac>>
    IN  compare_digest(expected, signature)

\* A log that takes a new entry at its front.
LogAppend_front(log, entry) == <<entry>> \o log

\* list.append on the result log (lines 75, 80, 84, 103, 108, 112, 116)
LogAppend(log, entry) == Append(log, entry)

\* One loop iteration's effect: the entries it appends and the checker
\* functions it calls, in order.
Iter(entries, called) == [entries |-> entries, calls |-> called]

\* A per-file check whose runtime branch lost its `else`: the file is run
\* even when it does not compile.
CheckFile_noelse(abs_path, name, state, ex) ==
    LET error == check_syntax(abs_path, state)
        runtime_error == run_file(abs_path, ex)
        first == IF error # None THEN <<error>> ELSE <<>>
    IN  IF runtime_error # None
        THEN Iter(first \o <<runtime_error>>, <<"check_syntax", "run_file">>)
        ELSE Iter(first \o <<Entry("noerr", name)>>, <<"check_syntax", "run_file">>)

\* A per-file check that says nothing about a file it found no fault with.
CheckFile_nomsg(abs_path, name, state, ex) ==
    LET error == check_syntax(abs_path, state)
    IN  IF error # None THEN Iter(<<error>>, <<"check_syntax">>)
        ELSE LET runtime_error == run_file(abs_path, ex)
             IN  IF runtime_error # None
                 THEN Iter(<<runtime_error>>, <<"check_syntax", "run_file">>)
                 ELSE Iter(<<>>, <<"check_syntax", "run_file">>)

\* The per-file check shared by both handlers (lines 73-85 and 101-113).
\* `name` is what the "No errors" text carries (file_path in a push, file
\* in a walk).
CheckFile(abs_path, name, state, ex) ==
    LET error == check_syntax(abs_path, state)
    IN  IF error # None THEN Iter(<<error>>, <<"check_syntax">>)
        ELSE LET runtime_error == run_file(abs_path, ex)
             IN  IF runtime_error # None
                 THEN Iter(<<runtime_error>>, <<"check_syntax", "run_file">>)
                 ELSE Iter(<<Entry("noerr", name)>>, <<"check_syntax", "run_file">>)

\* An iteration that does not test os.path.exists before checking.
PushIter_noexists(p, state, ex) ==
    IF EndsWithPy(p) THEN CheckFile(p, p, state, ex) ELSE Iter(<<>>, <<>>)

\* One iteration of the inner loop of handle_push for path p (lines 98-117).
PushIter(p, state, ex) ==
    IF EndsWithPy(p)
    THEN IF state # "absent"
         THEN CheckFile(p, p, state, ex)
         ELSE Iter(<<Entry("notfound", p)>>, <<>>)
    ELSE Iter(<<>>, <<>>)

\* A walk that checks every file it meets, whatever its name.
WalkIter_all(p, state, ex) == CheckFile(p, p, state, ex)

\* One iteration of the inner loop of run_checks_on_repo for file p
\* (lines 70-85).
WalkIter(p, state, ex) ==
    IF EndsWithPy(p) THEN CheckFile(p, p, state, ex) ELSE Iter(<<>>, <<>>)

\* The two lists joined the other way round.
FileList_swapped(commit) == commit.modified \o commit.added

\* commit.get("added", []) + commit.get("modified", [])  (line 97)
FileList(commit) == commit.added \o commit.modified

RECURSIVE WorkList(_)
\* The paths the two nested loops of handle_push visit, in visiting order
\* (lines 96-97).
WorkList(commits) ==
    IF commits = <<>> THEN <<>>
    ELSE FileList(Head(commits)) \o WorkList(Tail(commits))

\* A loop that gives up at the first iteration that reports a failure.
Rest_break(work, it) ==
    IF \E i \in 1..Len(it.entries) : it.entries[i].kind # "noerr" THEN <<>>
    ELSE Tail(work)

\* What is left for the loop after the iteration that did `it` (the for
\* statements of lines 96-97: the next path, whatever the iteration did).
Rest(work, it) == Tail(work)

\* Files known to be in a checkout.
Present(co) == {p \in Paths : co[p] \in {"bad", "good"}}

\* The clone's own bookkeeping directory, always part of a checkout.
GitDir == <<".git">>

\* All orders in which a directory listing can yield the members of a set.
RECURSIVE Orders(_)
Orders(S) ==
    IF S = {} THEN {<<>>}
    ELSE UNION {{<<p>> \o o : o \in Orders(S \ {p})} : p \in S}

\* Permission state of a file at removal time: removable, read-only (the
\* first removal fails, chmod makes it removable), or not removable at all.
Perms == {"rw", "ro", "locked"}

RECURSIVE rmtree_again(_, _)
\* A removal whose handler is called again when its own retry fails, and
\* then gets the file out of the way.
rmtree_again(order, perm) ==
    IF order = <<>> THEN [raised |-> FALSE, left |-> {}, chmods |-> <<>>]
    ELSE LET f == Head(order)
             r == rmtree_again(Tail(order), perm)
         IN  IF perm[f] = "locked" THEN [r EXCEPT !.chmods = <<f, f>> \o @]
             ELSE IF perm[f] = "ro" THEN [r EXCEPT !.chmods = <<f>> \o @]
             ELSE r

RECURSIVE rmtree(_, _)
\* shutil.rmtree(path, onerror=remove_readonly) over the tree's members in
\* listing order (lines 59-65).  A failed removal calls remove_readonly,
\* which clears the read-only bit and retries once; if the retry fails the
\* error propagates and the members not yet removed are left behind.
\* `chmods` lists the calls of remove_readonly, in order.
rmtree(order, perm) ==
    IF order = <<>> THEN [raised |-> FALSE, left |-> {}, chmods |-> <<>>]
    ELSE LET f == Head(order)
         IN  IF perm[f] = "locked"
             THEN [raised |-> TRUE, left |-> {order[i] : i \in 1..Len(order)},
                   chmods |-> <<f>>]
             ELSE LET r == rmtree(Tail(order), perm)
                  IN  IF perm[f] = "ro"
                      THEN [r EXCEPT !.chmods = <<f>> \o @]
                      ELSE r

\* safe_rmtree (lines 63-65) on a directory that exists, for every listing
\* order and every permission state of its members: whether it raises.
safe_rmtree(tree) ==
    {rmtree(order, perm).raised : order \in Orders(tree), perm \in [tree -> Perms]}

\* ---------------------------------------------------------------- state
VARIABLES
    errors,     \* the module-level result log (line 20)
    pc,         \* where each worker's handling of its delivery stands
    req,        \* the delivery's request: signature header, event, payload
    tmp,        \* the delivery's temporary directory: none / exists / removed
    temp_dir,   \* the handler's local temp_dir: the name mkdtemp returned
    disk,       \* the names of the temporary directories that exist
    checkout,   \* what the clone put in that directory, path by path
    todo,       \* the paths the push loop has still to visit
    resp,       \* the delivery's HTTP response
    report,     \* the body of the GET /errors response when that was the
                \* latest request, NoReport otherwise
    base,       \* history: the log as it was when the delivery arrived
    steps,      \* history: the loop iterations of the delivery, in order
    owner,      \* history: for every entry of the log, the worker whose
                \* delivery appended it (0 once that delivery is closed)
    hist,       \* history: every entry any delivery appended, in order
    probe,      \* a file under check by the two checkers on their own
    removal     \* history: the latest removal of a directory tree

vars == <<errors, pc, req, tmp, temp_dir, disk, checkout, todo, resp, report,
          base, steps, owner, hist, probe, removal>>

NoReq == [signature |-> NoHeader, event |-> "None",
          payload |-> [action |-> NoAction, commits |-> <<>>]]
NoResp == [code |-> 0, status |-> "None", errors_found |-> 0, details |-> <<>>,
           event |-> "None"]
NoReport == <<None>>
NoExecution == [timeout |-> FALSE, returncode |-> 0, stdout |-> <<>>]
NoProbe == [file |-> <<>>, state |-> "absent", ex |-> NoExecution,
            stage |-> "none", error |-> None, runtime_error |-> None]
NoRemoval == [stage |-> "none", order |-> <<>>, perm |-> <<>>,
              result |-> [raised |-> FALSE, left |-> {}, chmods |-> <<>>]]
Response(code, status, n, details) ==
    [code |-> code, status |-> status, errors_found |-> n, details |-> details,
     event |-> "None"]

\* An 'ignored' answer that does not say which event it ignored.
Ignored_anonymous(event) == Response(200, "ignored", 0, <<>>)

\* jsonify({"status": "ignored", "event": event}), 200  (line 164)
Ignored(event) == [Response(200, "ignored", 0, <<>>) EXCEPT !.event = event]

InitServer ==
    /\ errors = <<>>
    /\ pc = [w \in Workers |-> "idle"]
    /\ req = [w \in Workers |-> NoReq]
    /\ tmp = [w \in Workers |-> "none"]
    /\ temp_dir = [w \in Workers |-> NoDir]
    /\ disk = {}
    /\ checkout = [w \in Workers |-> Unseen]
    /\ todo = [w \in Workers |-> <<>>]
    /\ resp = [w \in Workers |-> NoResp]
    /\ report = NoReport
    /\ base = [w \in Workers |-> <<>>]
    /\ steps = [w \in Workers |-> <<>>]
    /\ owner = <<>>
    /\ hist = <<>>
    /\ removal = NoRemoval

Init == InitServer /\ probe = NoProbe

\* A delivery has ended: with a response, or with an exception.
Ended(w) == pc[w] \in {"done", "aborted"}

\* The files the walk has yielded so far.
Walked(w) == {steps[w][i].path : i \in 1..Len(steps[w])}

\* An upper bound on the entries the delivery of worker w has still to
\* append: the paths its push loop has to visit, the files its walk has to
\* yield.
Reserve(w) ==
    IF pc[w] = "push" THEN Len(WorkList(req[w].payload.commits))
    ELSE IF pc[w] = "checking" THEN Len(todo[w])
    ELSE IF pc[w] = "walking"
    THEN Cardinality({p \in Present(checkout[w]) \ Walked(w) : EndsWithPy(p)})
    ELSE 0

RECURSIVE Reserved(_)
Reserved(W) ==
    IF W = {} THEN 0
    ELSE LET w == CHOOSE v \in W : TRUE IN Reserve(w) + Reserved(W \ {w})

\* The length the log has or is bound to reach with the deliveries in flight.
Booked == Len(errors) + Reserved(Workers)

\* ------------------------------------------------------------- actions
\* A router whose test of the verifier's answer lost its `not`.
Route_inverted(signature, body, event) ==
    IF signature = NoHeader THEN "abort401"
    ELSE LET v == verify_signature(body, signature)
         IN  IF v.raised THEN "TypeError"
             ELSE IF v.value THEN "abort401"
             ELSE IF event = "push" THEN "push"
             ELSE IF event = "pull_request" THEN "pull_request"
             ELSE "ignored"

\* The decision of webhook() (lines 151-164): abort(401), the handler to
\* call, the 'ignored' answer, or the exception the verifier raised.
Route(signature, body, event) ==
    IF signature = NoHeader THEN "abort401"
    ELSE LET v == verify_signature(body, signature)
         IN  IF v.raised THEN "TypeError"
             ELSE IF ~v.value THEN "abort401"
             ELSE IF event = "push" THEN "push"
             ELSE IF event = "pull_request" THEN "pull_request"
             ELSE "ignored"

\* A list of qualifying actions that also names "closed".
Qualifies_closed(action) == action \in {"opened", "synchronize", "reopened", "closed"}

\* action in ["opened", "synchronize", "reopened"]  (line 132)
Qualifies(action) == action \in {"opened", "synchronize", "reopened"}

\* An exception leaves the handler: no response is built and the framework
\* answers 500.
Raise(w, exception) ==
    /\ pc' = [pc EXCEPT ![w] = "aborted"]
    /\ resp' = [resp EXCEPT ![w] = Response(500, exception, 0, <<>>)]

\* The header carries 'sha256=' followed by the HMAC-SHA256 of the body
\* under the configured secret.
SignatureOK(r) == r.signature = <<"sha256=", HexDigest(WEBHOOK_SECRET, r.payload)>>

\* POST /webhook arrives at an idle worker, the first in creation order,
\* and is routed (lines 149-164).
Webhook(w) ==
    /\ pc[w] = "idle"
    /\ \A v \in Workers : v < w => pc[v] # "idle"
    /\ Len(errors) <= MaxLog
    /\ \E event \in Events :
       \E payload \in PayloadsOf(event, Booked) :
       \E signature \in SignaturesFor(payload) :
          LET route == Route(signature, payload, event)
          IN  /\ req' = [req EXCEPT ![w] = [signature |-> signature,
                                            event |-> event, payload |-> payload]]
              /\ IF route = "abort401"
                 THEN /\ resp' = [resp EXCEPT ![w] =
                                     Response(401, "Invalid signature", 0, <<>>)]
                      /\ pc' = [pc EXCEPT ![w] = "done"]
                 ELSE IF route = "TypeError"
                 THEN Raise(w, "TypeError")
                 ELSE IF route = "ignored"
                 THEN /\ resp' = [resp EXCEPT ![w] = Ignored(event)]
                      /\ pc' = [pc EXCEPT ![w] = "done"]
                 ELSE /\ resp' = [resp EXCEPT ![w] = NoResp]
                      /\ pc' = [pc EXCEPT ![w] = route]
    /\ base' = [base EXCEPT ![w] = errors]
    /\ report' = NoReport
    /\ UNCHANGED <<errors, tmp, temp_dir, disk, checkout, todo, steps, owner,
                   hist, probe, removal>>

\* A directory maker that does not look at what exists.
mkdtemp_any(existing) == {NameList[1]}

\* tempfile.mkdtemp() (lines 92, 135): it creates a directory that was not
\* there before, under a name drawn at random.  Names are interchangeable,
\* so of the names no directory in `existing` bears the first stands for
\* whichever one is drawn.
mkdtemp(existing) ==
    {NameList[i] : i \in {j \in 1..Len(NameList) :
                             /\ NameList[j] \notin existing
                             /\ \A k \in 1..(j - 1) : NameList[k] \in existing}}

\* A push handler that removes its directory when the clone fails.
HandlePush_tidy(w) ==
    /\ pc[w] = "push"
    /\ \E d \in mkdtemp(disk) :
          /\ temp_dir' = [temp_dir EXCEPT ![w] = d]
          /\ \/ /\ todo' = [todo EXCEPT ![w] = WorkList(req[w].payload.commits)]
                /\ pc' = [pc EXCEPT ![w] = "checking"]
                /\ resp' = resp
                /\ tmp' = [tmp EXCEPT ![w] = "exists"]
                /\ disk' = disk \cup {d}
             \/ /\ Raise(w, "CalledProcessError")
                /\ todo' = todo
                /\ tmp' = [tmp EXCEPT ![w] = "removed"]
                /\ disk' = disk
    /\ UNCHANGED <<errors, req, checkout, report, base, steps, owner, hist, probe,
                   removal>>

\* handle_push up to the loop (lines 88-94): mkdtemp, then git clone with
\* check=True, which raises CalledProcessError when git exits non-zero.
HandlePush(w) ==
    /\ pc[w] = "push"
    /\ tmp' = [tmp EXCEPT ![w] = "exists"]
    /\ \E d \in mkdtemp(disk) :
          /\ temp_dir' = [temp_dir EXCEPT ![w] = d]
          /\ disk' = disk \cup {d}
    /\ \/ /\ todo' = [todo EXCEPT ![w] = WorkList(req[w].payload.commits)]
          /\ pc' = [pc EXCEPT ![w] = "checking"]
          /\ resp' = resp
       \/ /\ Raise(w, "CalledProcessError")
          /\ todo' = todo
    /\ UNCHANGED <<errors, req, checkout, report, base, steps, owner, hist, probe,
                   removal>>

\* The checkouts a clone of a branch can produce when the log is booked up
\* to n entries: every path is there or not, and a file that is there
\* compiles or not.
BranchCheckouts(n) ==
    {co \in [Paths -> FileStates] :
        /\ \A p \in Paths : ~EndsWithPy(p) => co[p] # "bad"
        /\ n + Cardinality({p \in Present(co) : EndsWithPy(p)}) <= MaxLog}

\* handle_pull_request up to the walk (lines 125-139).
HandlePullRequest(w) ==
    /\ pc[w] = "pull_request"
    /\ IF ~Qualifies(req[w].payload.action)
       THEN /\ resp' = [resp EXCEPT ![w] = Response(200, "skipped", 0, <<>>)]
            /\ pc' = [pc EXCEPT ![w] = "done"]
            /\ UNCHANGED <<tmp, temp_dir, disk, checkout>>
       ELSE /\ tmp' = [tmp EXCEPT ![w] = "exists"]
            /\ \E d \in mkdtemp(disk) :
                  /\ temp_dir' = [temp_dir EXCEPT ![w] = d]
                  /\ disk' = disk \cup {d}
            /\ \/ \E co \in BranchCheckouts(Booked) :
                     /\ checkout' = [checkout EXCEPT ![w] = co]
                     /\ pc' = [pc EXCEPT ![w] = "walking"]
                     /\ resp' = resp
               \/ /\ Raise(w, "CalledProcessError")
                  /\ checkout' = checkout
    /\ UNCHANGED <<errors, req, todo, report, base, steps, owner, hist, probe,
                   removal>>

RECURSIVE EntriesOf(_)
\* The entries a sequence of loop iterations appended, in order.
EntriesOf(ss) ==
    IF ss = <<>> THEN <<>> ELSE Head(ss).entries \o EntriesOf(Tail(ss))

RECURSIVE LogExtend(_, _)
\* The appends of one iteration, applied to the log.
LogExtend(log, entries) ==
    IF entries = <<>> THEN log
    ELSE LogExtend(LogAppend(log, Head(entries)), Tail(entries))

\* The child-process outcomes that matter to an iteration: any, when the
\* file is run, and a single placeholder when it is not.
Runs(p, state) ==
    IF EndsWithPy(p) /\ state = "good" THEN Executions ELSE {NoExecution}

\* The record of one loop iteration: the directory it worked in
\* (os.path.join(temp_dir, ...), lines 72, 99), the path, the state it
\* found the file in, and what it did.
Step(dir, p, state, it) ==
    [dir |-> dir, path |-> p, state |-> state, entries |-> it.entries,
     calls |-> it.calls]

\* The states in which the loop can find path p: what the checkout showed
\* before, or, the first time, any state a file of that name can have.
StatesOf(w, p) ==
    IF checkout[w][p] # "unseen" THEN {checkout[w][p]}
    ELSE IF EndsWithPy(p) THEN FileStates ELSE FileStates \ {"bad"}

\* An iteration that writes back the log as its own delivery knows it, with
\* the new entries at the end.
Logged_stale(w, entries) ==
    /\ errors' = base[w] \o EntriesOf(steps[w]) \o entries
    /\ hist' = hist \o entries
    /\ owner' = owner \o [i \in 1..Len(entries) |-> w]

\* What an iteration's appends do to the log and to its history.
Logged(w, entries) ==
    /\ errors' = LogExtend(errors, entries)
    /\ hist' = hist \o entries
    /\ owner' = owner \o [i \in 1..Len(entries) |-> w]

\* One iteration of the loop of handle_push (lines 97-117) that finds the
\* file in `state` and, if it runs it, sees the execution `ex`.
PushStep(w, state, ex) ==
    LET p == Head(todo[w])
        it == PushIter(p, state, ex)
    IN  /\ Logged(w, it.entries)
        /\ steps' = [steps EXCEPT ![w] = Append(@, Step(temp_dir[w], p, state, it))]
        /\ checkout' = [checkout EXCEPT ![w][p] = state]
        /\ todo' = [todo EXCEPT ![w] = Rest(@, it)]
        /\ UNCHANGED <<pc, req, tmp, temp_dir, disk, resp, report, base>>

\* One iteration of the loop of handle_push (lines 97-117).
PushNext(w) ==
    /\ pc[w] = "checking"
    /\ todo[w] # <<>>
    /\ \E state \in StatesOf(w, Head(todo[w])) :
       \E ex \in Runs(Head(todo[w]), state) : PushStep(w, state, ex)
    /\ UNCHANGED <<probe, removal>>

\* One iteration of the loop of run_checks_on_repo (lines 69-85): os.walk
\* yields the files of the checkout, each once, in the listing's order.
WalkNext(w) ==
    /\ pc[w] = "walking"
    /\ \E p \in Present(checkout[w]) \ Walked(w) :
       \E ex \in Runs(p, checkout[w][p]) :
          LET state == checkout[w][p]
              it == WalkIter(p, state, ex)
          IN  /\ Logged(w, it.entries)
              /\ steps' = [steps EXCEPT ![w] = Append(@, Step(temp_dir[w], p, state, it))]
    /\ UNCHANGED <<pc, req, tmp, temp_dir, disk, checkout, todo, resp, report,
                   base, probe, removal>>

\* The loop of the handler has run to its end.
LoopDone(w) ==
    \/ pc[w] = "checking" /\ todo[w] = <<>>
    \/ pc[w] = "walking" /\ Present(checkout[w]) \subseteq Walked(w)

\* A handler that goes from its loop to its return statement without
\* calling safe_rmtree.
Cleanup_skipped(w) ==
    /\ \/ pc[w] = "checking" /\ todo[w] = <<>>
       \/ pc[w] = "walking" /\ {p \in Paths : checkout[w][p] \in {"bad", "good"}}
                                  \subseteq {steps[w][i].path : i \in 1..Len(steps[w])}
    /\ pc' = [pc EXCEPT ![w] = "respond"]
    /\ UNCHANGED <<errors, req, tmp, temp_dir, disk, checkout, todo, resp, report,
                   base, steps, owner, hist, probe, removal>>

\* The tree safe_rmtree has to remove: the files of the checkout and .git.
Tree(w) == Present(checkout[w]) \cup {GitDir}

\* The end of safe_rmtree(temp_dir): the directory is gone, or the error
\* of a removal has left the handler.
Removed(w, raised) ==
    /\ IF raised
       THEN /\ Raise(w, "PermissionError")
            /\ UNCHANGED <<tmp, disk>>
       ELSE /\ tmp' = [tmp EXCEPT ![w] = "removed"]
            /\ disk' = disk \ {temp_dir[w]}
            /\ pc' = [pc EXCEPT ![w] = "respond"]
            /\ resp' = resp
    /\ UNCHANGED <<errors, req, temp_dir, checkout, todo, report, base, steps,
                   owner, hist>>

\* safe_rmtree(temp_dir) after the loop (lines 119-120, 143-144).
Cleanup(w) ==
    /\ LoopDone(w)
    /\ \E raised \in safe_rmtree(Tree(w)) : Removed(w, raised)
    /\ UNCHANGED <<probe, removal>>

\* The return statement of a handler (lines 122, 146), with no other
\* thread running between its reading of the log's length and of the log.
Respond(w) ==
    /\ pc[w] = "respond"
    /\ resp' = [resp EXCEPT ![w] =
                   Response(200,
                            IF req[w].event = "push" THEN "push checked" ELSE "PR checked",
                            Len(errors), errors)]
    /\ pc' = [pc EXCEPT ![w] = "done"]
    /\ UNCHANGED <<errors, req, tmp, temp_dir, disk, checkout, todo, report, base,
                   steps, owner, hist, probe, removal>>

\* The worker is done with an ended delivery and drops its record of it,
\* ready for the next request.  A directory the delivery left behind is
\* out of every handler's reach from here on and leaves the model with it.
Close(w) ==
    /\ Ended(w)
    /\ pc' = [pc EXCEPT ![w] = "idle"]
    /\ req' = [req EXCEPT ![w] = NoReq]
    /\ tmp' = [tmp EXCEPT ![w] = "none"]
    /\ temp_dir' = [temp_dir EXCEPT ![w] = NoDir]
    /\ disk' = IF tmp[w] = "exists" THEN disk \ {temp_dir[w]} ELSE disk
    /\ checkout' = [checkout EXCEPT ![w] = Unseen]
    /\ todo' = [todo EXCEPT ![w] = <<>>]
    /\ resp' = [resp EXCEPT ![w] = NoResp]
    /\ base' = [base EXCEPT ![w] = <<>>]
    /\ steps' = [steps EXCEPT ![w] = <<>>]
    /\ owner' = [i \in 1..Len(owner) |-> IF owner[i] = w THEN 0 ELSE owner[i]]
    /\ UNCHANGED <<errors, report, hist, probe, removal>>

\* A report that lists every distinct entry once.
RECURSIVE get_errors_dedup(_)
get_errors_dedup(log) ==
    IF log = <<>> THEN <<>>
    ELSE LET front == get_errors_dedup(SubSeq(log, 1, Len(log) - 1))
             last == log[Len(log)]
         IN  IF \E i \in 1..Len(front) : front[i] = last THEN front
             ELSE Append(front, last)

\* jsonify(errors)  (lines 167-169)
get_errors(log) == log

\* GET /errors, served like a delivery: when no other request is being
\* handled.
GetErrors ==
    /\ \A w \in Workers : pc[w] = "idle"
    /\ report' = get_errors(errors)
    /\ UNCHANGED <<errors, pc, req, tmp, temp_dir, disk, checkout, todo, resp,
                   base, steps, owner, hist, probe, removal>>

\* A delivery is handled to its end before the next one arrives.
Arrive(w) ==
    /\ \A v \in Workers : pc[v] = "idle"
    /\ Webhook(w)

Next ==
    \/ \E w \in Workers : Arrive(w)
    \/ \E w \in Workers : HandlePush(w)
    \/ \E w \in Workers : HandlePullRequest(w)
    \/ \E w \in Workers : PushNext(w)
    \/ \E w \in Workers : WalkNext(w)
    \/ \E w \in Workers : Cleanup(w)
    \/ \E w \in Workers : Respond(w)
    \/ \E w \in Workers : Close(w)
    \/ GetErrors

Spec == Init /\ [][Next]_vars

\* ------------------------------------------- the two checkers on their own
\* Any file that reaches the per-file check, with any outcome of running it.
InitCheckers ==
    /\ InitServer
    /\ \E p \in {q \in Paths : EndsWithPy(q)} :
       \E state \in {"bad", "good"} :
       \E ex \in Executions :
          probe = [file |-> p, state |-> state, ex |-> ex, stage |-> "new",
                   error |-> None, runtime_error |-> None]

\* error = check_syntax(abs_path)  (lines 73, 101)
ProbeSyntax ==
    /\ probe.stage = "new"
    /\ probe' = [probe EXCEPT !.stage = "compiled",
                              !.error = check_syntax(probe.file, probe.state)]
    /\ UNCHANGED <<errors, pc, req, tmp, temp_dir, disk, checkout, todo, resp,
                   report, base, steps, owner, hist, removal>>

\* runtime_error = run_file(abs_path), in the else branch  (lines 78, 106)
ProbeRun ==
    /\ probe.stage = "compiled"
    /\ probe.error = None
    /\ probe' = [probe EXCEPT !.stage = "ran",
                              !.runtime_error = run_file(probe.file, probe.ex)]
    /\ UNCHANGED <<errors, pc, req, tmp, temp_dir, disk, checkout, todo, resp,
                   report, base, steps, owner, hist, removal>>

NextCheckers == ProbeSyntax \/ ProbeRun

SpecCheckers == InitCheckers /\ [][NextCheckers]_vars

\* ------------------------------------------------ concurrent deliveries
\* handle_pull_request called for such a delivery: the branch it clones
\* holds .py files only.
PullSmall(w) ==
    /\ HandlePullRequest(w)
    /\ \A p \in Paths : ~EndsWithPy(p) => checkout'[w][p] \in {"unseen", "absent"}

\* The first half of the return statement (lines 122, 146): the dictionary
\* is built, len(errors) is evaluated and the list itself is referred to.
RespondLen(w) ==
    /\ pc[w] = "respond"
    /\ resp' = [resp EXCEPT ![w] = [NoResp EXCEPT !.errors_found = Len(errors)]]
    /\ pc' = [pc EXCEPT ![w] = "serialize"]
    /\ UNCHANGED <<errors, req, tmp, temp_dir, disk, checkout, todo, report, base,
                   steps, owner, hist, probe, removal>>

\* The second half: jsonify writes out the dictionary, reading the list as
\* it is by then.
RespondBody(w) ==
    /\ pc[w] = "serialize"
    /\ resp' = [resp EXCEPT ![w] =
                   Response(200,
                            IF req[w].event = "push" THEN "push checked" ELSE "PR checked",
                            resp[w].errors_found, errors)]
    /\ pc' = [pc EXCEPT ![w] = "done"]
    /\ UNCHANGED <<errors, req, tmp, temp_dir, disk, checkout, todo, report, base,
                   steps, owner, hist, probe, removal>>

\* The payloads of the deliveries that are let run side by side: a push of
\* at most one commit that adds .py files, a pull request just opened, an
\* event of another kind.
Small(payload) ==
    /\ Len(payload.commits) <= 1
    /\ \A i \in 1..Len(payload.commits) :
          /\ payload.commits[i].modified = <<>>
          /\ \A j \in 1..Len(payload.commits[i].added) :
                EndsWithPy(payload.commits[i].added[j])
    /\ payload.action \in {NoAction, "opened"}

\* A delivery that passes the signature check arrives.
Deliver(w) ==
    /\ Webhook(w)
    /\ SignatureOK(req'[w])
    /\ Small(req'[w].payload)

\* The server handles each request on a thread of its own (line 174): a
\* delivery can arrive and any handler can take its next step while others
\* are in flight.  An iteration touches shared state only in its append,
\* which the interpreter performs as one step.
NextConcurrent ==
    \/ \E w \in Workers : Deliver(w)
    \/ \E w \in Workers : HandlePush(w)
    \/ \E w \in Workers : PullSmall(w)
    \/ \E w \in Workers : PushNext(w)
    \/ \E w \in Workers : WalkNext(w)
    \/ \E w \in Workers : Cleanup(w)
    \/ \E w \in Workers : RespondLen(w)
    \/ \E w \in Workers : RespondBody(w)

SpecConcurrent == Init /\ [][NextConcurrent]_vars

\* --------------------------------------- one push, its inputs on record
\* The push payloads of one commit that lists one path.
OnePathPushes ==
    {[action |-> NoAction, commits |-> <<c>>] : c \in CommitsOfWeight(1)}

\* webhook() has found the signature of such a push valid and has called
\* handle_push (lines 159-160).
InitOnePush ==
    \E payload \in OnePathPushes :
        /\ errors = <<>>
        /\ pc = [w \in Workers |-> IF w = 1 THEN "push" ELSE "idle"]
        /\ req = [w \in Workers |->
                     IF w = 1
                     THEN [signature |-> <<"sha256=", HexDigest(WEBHOOK_SECRET, payload)>>,
                           event |-> "push", payload |-> payload]
                     ELSE NoReq]
        /\ tmp = [w \in Workers |-> "none"]
        /\ temp_dir = [w \in Workers |-> NoDir]
        /\ disk = {}
        /\ checkout = [w \in Workers |-> Unseen]
        /\ todo = [w \in Workers |-> <<>>]
        /\ resp = [w \in Workers |-> NoResp]
        /\ report = NoReport
        /\ base = [w \in Workers |-> <<>>]
        /\ steps = [w \in Workers |-> <<>>]
        /\ owner = <<>>
        /\ hist = <<>>
        /\ probe = NoProbe
        /\ removal = NoRemoval

\* PushNext, with the file's state and execution kept on record.
PushRecorded(w) ==
    /\ pc[w] = "checking"
    /\ todo[w] # <<>>
    /\ \E state \in StatesOf(w, Head(todo[w])) :
       \E ex \in Runs(Head(todo[w]), state) :
          /\ PushStep(w, state, ex)
          /\ probe' = [NoProbe EXCEPT !.file = Head(todo[w]), !.state = state,
                                      !.ex = ex, !.stage = "pushed"]
    /\ UNCHANGED removal

\* Cleanup, with the listing order, the permissions and what rmtree did
\* with them kept on record.
CleanupRecorded(w) ==
    /\ LoopDone(w)
    /\ \E order \in Orders(Tree(w)) :
       \E perm \in [Tree(w) -> Perms] :
          LET r == rmtree(order, perm)
          IN  /\ Removed(w, r.raised)
              /\ removal' = [stage |-> "removed", order |-> order, perm |-> perm,
                             result |-> r]
    /\ UNCHANGED probe

NextOnePush ==
    \/ HandlePush(1)
    \/ PushRecorded(1)
    \/ CleanupRecorded(1)
    \/ Respond(1)

SpecOnePush == InitOnePush /\ [][NextOnePush]_vars

\* ===================================================================
\* Properties
\* ===================================================================
\* A worker holds the record of a delivery (in flight or ended).
Holds(w) == pc[w] # "idle"

\* C1: a delivery whose signature header is missing or is not 'sha256=' +
\* HMAC-SHA256(secret, body) is answered 401, gets no temporary directory
\* and no clone, checks nothing, and leaves the log as it found it.
C1_BadSignatureRejected ==
    \A w \in Workers :
        (Holds(w) /\ ~SignatureOK(req[w])) =>
            /\ resp[w].code = 401
            /\ tmp[w] = "none"
            /\ checkout[w] = Unseen
            /\ steps[w] = <<>>
            /\ errors = base[w]

\* C2: a delivery with a valid signature never ends with a 401 response,
\* whatever its event, payload, clone outcome and per-file outcomes.
C2_ValidNever401 ==
    \A w \in Workers :
        (Holds(w) /\ SignatureOK(req[w])) => resp[w].code # 401

\* A validly signed push whose clone failed ended with an exception, not 401.
C2_Witness ==
    \E w \in Workers :
        /\ pc[w] = "aborted"
        /\ SignatureOK(req[w])
        /\ req[w].event = "push"
        /\ resp[w].status = "CalledProcessError"

\* C3: deliveries handled one after another leave in the log, and GET
\* /errors returns, exactly the entries they appended: each delivery's
\* entries, in the order it appended them, after everything the earlier
\* deliveries left; nothing is truncated, dropped or deduplicated.
C3_ReportIsConcatenation ==
    /\ errors = hist
    /\ \A w \in Workers : Holds(w) => hist = base[w] \o EntriesOf(steps[w])
    /\ report # NoReport => report = hist

\* GET /errors returned a log longer than one delivery can make it, with
\* the same entry in it twice.
C3_Witness ==
    /\ report # NoReport
    /\ Len(report) > MaxPaths
    /\ \E i, j \in 1..Len(report) : i < j /\ report[i] = report[j]

\* The number of path occurrences of a push payload.
RECURSIVE Count(_)
Count(commits) ==
    IF commits = <<>> THEN 0
    ELSE Len(Head(commits).added) + Len(Head(commits).modified) + Count(Tail(commits))

\* The k-th path occurrence of a push payload, commits in payload order and
\* within a commit the added paths before the modified ones: the list it
\* comes from and the path.
RECURSIVE Nth(_, _)
Nth(commits, k) ==
    LET c == Head(commits)
        a == Len(c.added)
        m == Len(c.modified)
    IN  IF k <= a THEN [list |-> "added", path |-> c.added[k]]
        ELSE IF k <= a + m THEN [list |-> "modified", path |-> c.modified[k - a]]
        ELSE Nth(Tail(commits), k - a - m)

\* The delivery's clone succeeded.
Cloned(w) == tmp[w] \in {"exists", "removed"} /\ resp[w].status # "CalledProcessError"

\* The delivery is a push whose clone succeeded.
ClonedPush(w) == req[w].event = "push" /\ Cloned(w)

\* The delivery's handler has left its loop.
PastLoop(w) == Cloned(w) /\ pc[w] \in {"respond", "done", "aborted"}

\* C4 as claimed: in a push whose clone succeeded the loop visits every
\* path occurrence in payload order and appends exactly one entry for each.
C4_Original ==
    \A w \in Workers :
        ClonedPush(w) =>
            /\ Len(steps[w]) + Len(todo[w]) = Count(req[w].payload.commits)
            /\ \A i \in 1..Len(steps[w]) :
                  /\ steps[w][i].path = Nth(req[w].payload.commits, i).path
                  /\ Len(steps[w][i].entries) = 1

\* C4, amended: in a push whose clone succeeded the loop visits every path
\* occurrence, commits in payload order and added before modified, and
\* appends to the log exactly one entry, naming the path, for each
\* occurrence of a path ending in ".py" and none for any other path; a path
\* in several commits is checked and logged once per occurrence.
C4_OneEntryPerPyPath ==
    \A w \in Workers :
        ClonedPush(w) =>
            /\ Len(steps[w]) + Len(todo[w]) = Count(req[w].payload.commits)
            /\ PastLoop(w) => todo[w] = <<>>
            /\ \A i \in 1..Len(steps[w]) :
                  LET s == steps[w][i]
                  IN  /\ s.path = Nth(req[w].payload.commits, i).path
                      /\ Len(s.entries) = (IF s.path[Len(s.path)] = ".py" THEN 1 ELSE 0)
                      /\ \A j \in 1..Len(s.entries) : s.entries[j].file = s.path
            /\ errors = base[w] \o EntriesOf(steps[w])

\* A push answered 200 whose two commits name the same .py path: it was
\* checked twice and logged twice.
C4_Witness ==
    \E w \in Workers :
        /\ ClonedPush(w) /\ pc[w] = "done" /\ resp[w].code = 200
        /\ Len(req[w].payload.commits) = 2
        /\ \A i \in 1..2 : FileList(req[w].payload.commits[i]) = <<PyA>>
        /\ Len(EntriesOf(steps[w])) = 2
        /\ Len(errors) = Len(base[w]) + 2

\* C5 as claimed: a path of an added list that is absent from the checkout
\* gets a 'file not found' entry and neither checker is called for it.
C5_Original ==
    \A w \in Workers :
        ClonedPush(w) =>
            \A i \in 1..Len(steps[w]) :
                LET s == steps[w][i]
                IN  (Nth(req[w].payload.commits, i).list = "added" /\ s.state = "absent")
                        => /\ s.entries = <<[kind |-> "notfound", file |-> s.path]>>
                           /\ s.calls = <<>>

\* C5, amended: a path of an added list that ends in ".py" and is absent
\* from the checkout gets a 'file not found' entry and neither checker is
\* called for it; an absent path that does not end in ".py" gets no entry
\* and no check.
C5_AbsentPyPathNotFound ==
    \A w \in Workers :
        ClonedPush(w) =>
            \A i \in 1..Len(steps[w]) :
                LET s == steps[w][i]
                IN  (Nth(req[w].payload.commits, i).list = "added" /\ s.state = "absent")
                        => /\ s.calls = <<>>
                           /\ IF s.path[Len(s.path)] = ".py"
                              THEN s.entries = <<[kind |-> "notfound", file |-> s.path]>>
                              ELSE s.entries = <<>>

\* A push found an added .py path missing from its checkout and logged it.
C5_Witness ==
    \E w \in Workers :
        /\ ClonedPush(w)
        /\ \E i \in 1..Len(steps[w]) :
              /\ Nth(req[w].payload.commits, i).list = "added"
              /\ steps[w][i].path = PyA
              /\ steps[w][i].state = "absent"
              /\ errors[Len(base[w]) + 1] = [kind |-> "notfound", file |-> PyA]

\* C6: in a push or a pull-request delivery, a checked file whose syntax
\* check fails gets exactly one entry, a syntax-error entry, and run_file is
\* not called on it; run_file is only ever called right after check_syntax
\* on a file that compiles.
C6_SyntaxErrorStopsRun ==
    \A w \in Workers :
        \A i \in 1..Len(steps[w]) :
            LET s == steps[w][i]
            IN  /\ s.state = "bad" =>
                      /\ s.entries = <<[kind |-> "syntax", file |-> s.path]>>
                      /\ s.calls = <<"check_syntax">>
                /\ (\E j \in 1..Len(s.calls) : s.calls[j] = "run_file") =>
                      /\ s.calls = <<"check_syntax", "run_file">>
                      /\ s.state = "good"

\* A pull-request walk met a file that does not compile and logged it.
C6_Witness ==
    \E w \in Workers :
        /\ req[w].event = "pull_request"
        /\ pc[w] = "done"
        /\ \E i \in 1..Len(steps[w]) :
              /\ steps[w][i].state = "bad"
              /\ steps[w][i].entries = <<[kind |-> "syntax", file |-> PyA]>>
        /\ errors = base[w] \o <<[kind |-> "syntax", file |-> PyA]>>

\* C7: a pull-request delivery (validly signed) whose action is not opened,
\* synchronize or reopened gets no temporary directory and no clone, checks
\* nothing, is answered 200 'skipped', and leaves the log as it found it.
C7_OtherActionsSkipped ==
    \A w \in Workers :
        ( /\ Holds(w) /\ SignatureOK(req[w])
          /\ req[w].event = "pull_request"
          /\ req[w].payload.action \notin {"opened", "synchronize", "reopened"} )
        => /\ tmp[w] = "none"
           /\ checkout[w] = Unseen
           /\ steps[w] = <<>>
           /\ errors = base[w]
           /\ \/ pc[w] = "pull_request"
              \/ pc[w] = "done" /\ resp[w] = Response(200, "skipped", 0, <<>>)

\* A 'closed' pull request was skipped while the log held entries.
C7_Witness ==
    \E w \in Workers :
        /\ pc[w] = "done"
        /\ req[w].event = "pull_request"
        /\ req[w].payload.action = "closed"
        /\ resp[w].status = "skipped"
        /\ errors # <<>>

\* The delivery was answered 200 by the return statement of a handler.
Checked200(w) == resp[w].code = 200 /\ resp[w].status \in {"push checked", "PR checked"}

\* C8 as claimed: a delivery answered 200 after a successful clone has
\* removed its temporary directory, and a delivery ends with its directory
\* still on disk only if its clone failed.
C8_Original ==
    \A w \in Workers :
        /\ Checked200(w) => tmp[w] = "removed"
        /\ (Ended(w) /\ tmp[w] = "exists") => resp[w].status = "CalledProcessError"

\* C8, amended: a delivery answered 200 after a successful clone has
\* removed its temporary directory before the response is built; a delivery
\* ends with its directory still on disk only if its clone failed or its
\* cleanup raised, and then it is not answered 200.
C8_CleanupBeforeResponse ==
    \A w \in Workers :
        /\ (pc[w] = "respond" \/ Checked200(w)) => tmp[w] = "removed"
        /\ (Ended(w) /\ tmp[w] = "exists") =>
              /\ pc[w] = "aborted"
              /\ resp[w].code = 500
              /\ resp[w].status \in {"CalledProcessError", "PermissionError"}

\* A push that checked a file was answered 200 with its directory removed.
C8_Witness ==
    \E w \in Workers :
        /\ ClonedPush(w) /\ pc[w] = "done" /\ Checked200(w)
        /\ steps[w] # <<>>
        /\ tmp[w] = "removed"

\* An entry that reports a per-file failure.
Failure(e) == e.kind \in {"syntax", "runtime", "timeout", "notfound"}

\* The loop of the delivery visited everything it had to: every path
\* occurrence of a push payload, every file of a pull request's checkout.
LoopComplete(w) ==
    IF req[w].event = "push"
    THEN Len(steps[w]) = Count(req[w].payload.commits)
    ELSE /\ {steps[w][i].path : i \in 1..Len(steps[w])}
               = {p \in Paths : checkout[w][p] \in {"bad", "good"}}
         /\ Len(steps[w]) = Cardinality({p \in Paths : checkout[w][p] \in {"bad", "good"}})

\* C9 as claimed: after a successful clone no per-file failure stops the
\* batch, cleanup runs and the delivery is answered 200; a delivery ends
\* with an exception only if its clone failed.
C9_Original ==
    \A w \in Workers :
        /\ (Ended(w) /\ Cloned(w)) => (LoopComplete(w) /\ resp[w].code = 200)
        /\ (pc[w] = "aborted" /\ SignatureOK(req[w])) =>
              resp[w].status = "CalledProcessError"

\* C9, amended: after a successful clone no per-file failure (syntax error,
\* non-zero exit, timeout, missing file) stops the batch: the loop visits
\* every remaining file, cleanup runs, and the delivery is answered 200
\* unless cleanup itself raises.  A validly signed delivery ends with an
\* exception only if its clone failed or its cleanup raised.
C9_FailuresDoNotAbort ==
    \A w \in Workers :
        /\ PastLoop(w) => LoopComplete(w)
        /\ (Ended(w) /\ Cloned(w) /\ resp[w].status # "PermissionError") =>
              (resp[w].code = 200 /\ tmp[w] = "removed")
        /\ (pc[w] = "aborted" /\ SignatureOK(req[w])) =>
              resp[w].status \in {"CalledProcessError", "PermissionError"}

\* A push whose first path failed its check went on to its second path and
\* was answered 200.
C9_Witness ==
    \E w \in Workers :
        /\ ClonedPush(w) /\ pc[w] = "done" /\ resp[w].code = 200
        /\ Len(steps[w]) = 2
        /\ steps[w][1].entries # <<>> /\ Failure(steps[w][1].entries[1])
        /\ steps[w][2].entries # <<>>

\* The runtime checker has classified the probe's execution.
Ran == probe.stage = "ran"

\* C10 as claimed: timeout gives a timeout entry; otherwise a non-zero exit
\* gives a runtime-error entry; otherwise non-empty standard output gives an
\* output-report entry; otherwise no result.
C10_Original ==
    Ran =>
        LET ex == probe.ex
            r == probe.runtime_error
        IN  /\ ex.timeout => r.kind = "timeout"
            /\ (~ex.timeout /\ ex.returncode # 0) => r.kind = "runtime"
            /\ (~ex.timeout /\ ex.returncode = 0 /\ ex.stdout # <<>>) => r.kind = "output"
            /\ (~ex.timeout /\ ex.returncode = 0 /\ ex.stdout = <<>>) => r = None

\* Standard output holds a character that is not whitespace.
Prints(out) == \E i \in 1..Len(out) : out[i] # " "

\* C10, amended: timeout gives a timeout entry (never a runtime-error
\* entry); otherwise a non-zero exit gives a runtime-error entry; otherwise
\* standard output that is non-empty after stripping whitespace gives an
\* output-report entry; otherwise (zero exit, output empty or whitespace
\* only) no result.  Exactly one of the four applies.
C10_RunFilePriority ==
    Ran =>
        LET ex == probe.ex
            r == probe.runtime_error
        IN  /\ ex.timeout => r = [kind |-> "timeout", file |-> probe.file]
            /\ (~ex.timeout /\ ex.returncode # 0) =>
                  r = [kind |-> "runtime", file |-> probe.file]
            /\ (~ex.timeout /\ ex.returncode = 0 /\ Prints(ex.stdout)) =>
                  r = [kind |-> "output", file |-> probe.file]
            /\ (~ex.timeout /\ ex.returncode = 0 /\ ~Prints(ex.stdout)) => r = None
            /\ r.kind \in {"timeout", "runtime", "output", "None"}

\* A run that exited zero having printed only whitespace got no result.
C10_Witness ==
    /\ Ran
    /\ ~probe.ex.timeout /\ probe.ex.returncode = 0
    /\ probe.ex.stdout # <<>> /\ ~Prints(probe.ex.stdout)
    /\ probe.runtime_error = None

\* The file of the push has been through its iteration of the loop.
Pushed == probe.stage = "pushed"

\* The file is in the checkout, compiles, exits with code zero within the
\* time limit and prints nothing.
Quiet ==
    /\ probe.state = "good"
    /\ probe.ex = [timeout |-> FALSE, returncode |-> 0, stdout |-> <<>>]

\* C11: a push that lists a .py file which is in the checkout, compiles,
\* exits with code zero and prints nothing appends for that file exactly
\* one entry, a 'No errors' entry naming it, and no runtime-error (nor any
\* other) entry for it.
C11_QuietFileNoErrors ==
    (Pushed /\ probe.file[Len(probe.file)] = ".py" /\ Quiet) =>
        /\ errors = <<[kind |-> "noerr", file |-> probe.file]>>
        /\ steps[1][1].entries = errors
        /\ steps[1][1].calls = <<"check_syntax", "run_file">>
        /\ \A i \in 1..Len(errors) : errors[i].kind # "runtime"

\* Such a push was answered 200 with the one 'No errors' entry in details.
C11_Witness ==
    /\ Pushed /\ Quiet /\ probe.file = PyA
    /\ pc[1] = "done" /\ resp[1].code = 200
    /\ resp[1].details = <<[kind |-> "noerr", file |-> PyA]>>

\* The delivery's clone step failed.
CloneFailed(w) == pc[w] = "aborted" /\ resp[w].status = "CalledProcessError"

\* C12: when the clone of a push or of a qualifying pull-request delivery
\* fails, the delivery is aborted: no file is checked, nothing is appended
\* to the log, cleanup does not run, so the directory made for the delivery
\* stays on disk, and no 200 response is produced.
C12_CloneFailureAborts ==
    \A w \in Workers :
        CloneFailed(w) =>
            /\ \/ req[w].event = "push"
               \/ /\ req[w].event = "pull_request"
                  /\ req[w].payload.action \in {"opened", "synchronize", "reopened"}
            /\ steps[w] = <<>>
            /\ checkout[w] = Unseen
            /\ errors = base[w]
            /\ tmp[w] = "exists"
            /\ temp_dir[w] \in disk
            /\ resp[w].code = 500

\* The clone of a push failed while the log held entries; its directory is
\* on disk.
C12_Witness ==
    \E w \in Workers :
        /\ CloneFailed(w)
        /\ req[w].event = "push"
        /\ errors # <<>>
        /\ temp_dir[w] \in disk

\* Sequence a is a prefix of sequence b.
IsPrefix(a, b) == Len(a) <= Len(b) /\ SubSeq(b, 1, Len(a)) = a

\* C13: the log is append-only: whatever step is taken (a delivery that is
\* checked, rejected, skipped, ignored or aborted, or GET /errors), the log
\* before the step is a prefix of the log after it, so the log at any
\* earlier point is a prefix of the log at any later point.
C13_AppendOnly == [][IsPrefix(errors, errors')]_vars

\* A delivery that found entries in the log added its own and then ended
\* with an exception; the entries it found are still there, in front.
C13_Witness ==
    \E w \in Workers :
        /\ pc[w] = "aborted"
        /\ base[w] # <<>>
        /\ Len(errors) > Len(base[w])
        /\ IsPrefix(base[w], errors)

\* The delivery is a pull request whose clone succeeded.
ClonedPull(w) == req[w].event = "pull_request" /\ Cloned(w)

\* C14: a pull-request delivery with action opened, synchronize or reopened
\* whose clone succeeded walks every file of its checkout once and appends
\* to the log exactly one entry (syntax error, runtime error, timeout,
\* output report or 'No errors'), naming the file, for each file whose name
\* ends in ".py", and no entry for any other file.
C14_WalkOneEntryPerPyFile ==
    \A w \in Workers :
        ClonedPull(w) =>
            /\ req[w].payload.action \in {"opened", "synchronize", "reopened"}
            /\ \A i \in 1..Len(steps[w]) :
                  LET s == steps[w][i]
                  IN  /\ checkout[w][s.path] \in {"bad", "good"}
                      /\ \A j \in 1..Len(steps[w]) : steps[w][j].path = s.path => j = i
                      /\ Len(s.entries) = (IF s.path[Len(s.path)] = ".py" THEN 1 ELSE 0)
                      /\ \A j \in 1..Len(s.entries) :
                            /\ s.entries[j].file = s.path
                            /\ s.entries[j].kind \in
                                  {"syntax", "runtime", "timeout", "output", "noerr"}
            /\ PastLoop(w) =>
                  {steps[w][i].path : i \in 1..Len(steps[w])}
                      = {p \in Paths : checkout[w][p] \in {"bad", "good"}}
            /\ errors = base[w] \o EntriesOf(steps[w])

\* A reopened pull request whose checkout holds a .py file and a file of
\* another kind was answered 200 with one entry added, for the .py file.
C14_Witness ==
    \E w \in Workers :
        /\ ClonedPull(w) /\ pc[w] = "done" /\ resp[w].code = 200
        /\ req[w].payload.action = "reopened"
        /\ checkout[w][PyA] = "good" /\ checkout[w][Readme] = "good"
        /\ Len(steps[w]) = 2
        /\ Len(errors) = Len(base[w]) + 1
        /\ errors[Len(errors)].file = PyA

\* C15: a correctly signed delivery whose event is neither 'push' nor
\* 'pull_request' is answered at once with 200, status 'ignored' and the
\* name of the event; it gets no temporary directory and no clone, checks
\* nothing and leaves the log as it found it.
C15_OtherEventsIgnored ==
    \A w \in Workers :
        (Holds(w) /\ SignatureOK(req[w]) /\ req[w].event \notin {"push", "pull_request"})
        => /\ pc[w] = "done"
           /\ resp[w].code = 200
           /\ resp[w].status = "ignored"
           /\ resp[w].event = req[w].event
           /\ tmp[w] = "none"
           /\ temp_dir[w] = NoDir
           /\ temp_dir[w] \notin disk
           /\ checkout[w] = Unseen
           /\ steps[w] = <<>>
           /\ errors = base[w]

\* An 'issues' delivery was ignored while the log held entries and no
\* temporary directory existed.
C15_Witness ==
    \E w \in Workers :
        /\ pc[w] = "done"
        /\ SignatureOK(req[w])
        /\ req[w].event = "issues"
        /\ resp[w].status = "ignored" /\ resp[w].event = "issues"
        /\ errors # <<>>
        /\ disk = {}

\* The delivery has arrived and has neither been answered nor ended with an
\* exception.
InFlight(w) == pc[w] \notin {"idle", "done", "aborted"}

\* The directory of worker w exists and no other worker's temp_dir names it
\* while that worker's directory exists.
OwnsAlone(w) ==
    /\ tmp[w] = "exists"
    /\ temp_dir[w] \in disk
    /\ \A v \in Workers \ {w} : tmp[v] = "exists" => temp_dir[v] # temp_dir[w]

\* C16 as claimed: at every point every delivery in flight has exactly one
\* temporary checkout, which is its own alone.
C16_Original == \A w \in Workers : InFlight(w) => OwnsAlone(w)

\* Where each delivery stands with its directory.
OneCheckoutAtMost ==
    \A w \in Workers :
        /\ pc[w] \in {"idle", "push", "pull_request"} => tmp[w] = "none"
        /\ pc[w] \in {"checking", "walking"} => tmp[w] = "exists"
        /\ pc[w] \in {"respond", "serialize"} => tmp[w] = "removed"
        /\ tmp[w] = "none" <=> temp_dir[w] = NoDir
        /\ tmp[w] = "exists" => OwnsAlone(w)
        /\ \A i \in 1..Len(steps[w]) : steps[w][i].dir = temp_dir[w]

\* A step in which worker w checks a file does so in its own directory,
\* which exists and is no other delivery's.
ChecksOwn(w) ==
    steps'[w] # steps[w] =>
        /\ OwnsAlone(w)
        /\ steps'[w][Len(steps'[w])].dir = temp_dir[w]

\* A step in which a directory goes from the disk is the cleanup of the one
\* delivery it belongs to.
DeletesOwn ==
    \A d \in disk \ disk' :
        \E w \in Workers :
            /\ temp_dir[w] = d /\ OwnsAlone(w)
            /\ pc[w] \in {"checking", "walking"} /\ pc'[w] = "respond"
            /\ \A v \in Workers \ {w} : pc'[v] = pc[v] /\ tmp'[v] = tmp[v]

\* C16, amended: in any interleaving of concurrent deliveries a delivery in
\* flight has at most one temporary checkout: none until its handler makes
\* one, exactly one from then until its cleanup, none after.  While it
\* exists it is that delivery's alone; a delivery checks files only in its
\* own checkout and only its own cleanup deletes it.
C16_ExclusiveCheckout ==
    /\ []OneCheckoutAtMost
    /\ [][(\A w \in Workers : ChecksOwn(w)) /\ DeletesOwn]_vars

\* Two deliveries have checked files side by side, each in its own
\* directory, and one of them has removed its directory while the other's
\* is still there.
C16_Witness ==
    \E w, v \in Workers :
        /\ w # v
        /\ req[w].event = "push" /\ req[v].event = "pull_request"
        /\ steps[w] # <<>> /\ steps[v] # <<>>
        /\ steps[w][1].dir # steps[v][1].dir
        /\ tmp[w] = "removed" /\ pc[w] = "serialize"
        /\ OwnsAlone(v) /\ pc[v] = "walking"

\* The entries of the log that worker w's delivery appended, in log order.
RECURSIVE OwnedBy(_, _, _)
OwnedBy(log, own, w) ==
    IF log = <<>> THEN <<>>
    ELSE (IF Head(own) = w THEN <<Head(log)>> ELSE <<>>)
             \o OwnedBy(Tail(log), Tail(own), w)

\* C17: when deliveries run concurrently the log is at every moment an
\* interleaving of what each delivery appended: every appended entry is in
\* it once, none is lost or duplicated, each belongs to exactly one
\* delivery, and the entries of one delivery stand in the order in which
\* that delivery appended them, behind everything the log held when that
\* delivery arrived.
C17_LogIsInterleaving ==
    /\ errors = hist
    /\ Len(owner) = Len(errors)
    /\ \A i \in 1..Len(owner) : owner[i] \in Workers /\ Holds(owner[i])
    /\ \A w \in Workers :
          /\ OwnedBy(errors, owner, w) = EntriesOf(steps[w])
          /\ \A i \in 1..Len(owner) : owner[i] = w => i > Len(base[w])

\* Two deliveries appended in turn: the log holds an entry of one between
\* two different entries of the other, which stand in that delivery's order.
C17_Witness ==
    \E w, v \in Workers :
        /\ w # v
        /\ owner = <<w, v, w>>
        /\ errors[1] # errors[3]
        /\ EntriesOf(steps[w]) = <<errors[1], errors[3]>>
        /\ EntriesOf(steps[v]) = <<errors[2]>>

\* C18: in the 200 response of a push or qualifying pull-request delivery,
\* 'details' is the whole log as it stands when the response is written,
\* with the entries of earlier and of concurrent deliveries and the entries
\* that report no error, and 'errors_found' is the length of 'details'.
C18_DetailsIsWholeLog ==
    \A w \in Workers :
        Checked200(w) =>
            /\ IsPrefix(base[w], resp[w].details)
            /\ IsPrefix(resp[w].details, errors)
            /\ Len(resp[w].details) >= Len(base[w]) + Len(EntriesOf(steps[w]))
            /\ resp[w].errors_found = Len(resp[w].details)

\* The cleanup of the push has gone through the tree, or as far as it got.
Cleaned == removal.stage = "removed"

\* The place in the listing of the first file that cannot be removed even
\* after its read-only attribute is cleared; past the end if there is none.
FirstLocked(order, perm) ==
    LET locked == {i \in 1..Len(order) : perm[order[i]] = "locked"}
    IN  IF locked = {} THEN Len(order) + 1
        ELSE CHOOSE i \in locked : \A j \in locked : i <= j

\* C19: during cleanup a file whose removal fails for want of permission is
\* handled once: its read-only attribute is cleared and its removal is
\* retried; if the retry succeeds the removal of the rest of the tree goes
\* on.  If the retry fails the error is not handled again: it leaves the
\* handler, the files not yet removed stay, and the delivery ends without a
\* 200 response with its entries already in the log.
C19_OneRetryThenPropagate ==
    Cleaned =>
        LET order == removal.order
            perm == removal.perm
            r == removal.result
            k == FirstLocked(order, perm)
            upto == IF k > Len(order) THEN Len(order) ELSE k
        IN  /\ r.chmods = SelectSeq(SubSeq(order, 1, upto), LAMBDA f : perm[f] # "rw")
            /\ \A i, j \in 1..Len(r.chmods) : r.chmods[i] = r.chmods[j] => i = j
            /\ r.raised <=> k <= Len(order)
            /\ r.left = {order[i] : i \in k..Len(order)}
            /\ ~r.raised =>
                  /\ tmp[1] = "removed" /\ temp_dir[1] \notin disk
                  /\ pc[1] \in {"respond", "done"}
            /\ r.raised =>
                  /\ pc[1] = "aborted"
                  /\ resp[1].code = 500 /\ resp[1].status = "PermissionError"
                  /\ tmp[1] = "exists" /\ temp_dir[1] \in disk
                  /\ errors = EntriesOf(steps[1])

\* Cleanup cleared the attribute of a read-only file, removed it, went on
\* and met a file it could not remove at the second attempt: the delivery
\* ended with the error, its entry in the log.
C19_Witness ==
    /\ Cleaned
    /\ Len(removal.order) = 2
    /\ removal.perm[removal.order[1]] = "ro"
    /\ removal.perm[removal.order[2]] = "locked"
    /\ removal.result.chmods = removal.order
    /\ removal.result.left = {removal.order[2]}
    /\ pc[1] = "aborted" /\ resp[1].status = "PermissionError"
    /\ errors # <<>>

====
